---- MODULE Spec2Model ----
(***************************************************************************)
(* FarnDB (src/farndb.py): a JSON file backed document store.              *)
(*                                                                         *)
(* The model keeps Python's object identity for documents: a document is   *)
(* a dict object on a heap, and a collection is a list of references to    *)
(* such objects.  insert stores the caller's own dict object and find      *)
(* returns the stored objects, so identity matters.  The file system holds *)
(* JSON text, modelled by its token structure.  Clock readings are whole   *)
(* microseconds.                                                           *)
(*                                                                         *)
(* Record fields, dict keys and the elements of constant sets are written  *)
(* in the order TLC sorts them (the order of first appearance in this      *)
(* file), so that a constant shared by TLC's workers is already in normal  *)
(* form when they first read it.                                           *)
(***************************************************************************)
EXTENDS Integers, Sequences, FiniteSets, TLC

\* ------------------------------------------------------------------ bounds
\* The largest clock reading (microseconds) the model lets time.time() reach.
MaxClock == 1
\* The largest number of document references the database may hold.
MaxDocs == 2

\* ----------------------------------------------------------- Python values
\* A Python value: t is its type, n its number, s its text.
PyInt(n) == [n |-> n, t |-> "int", s |-> ""]
PyFloat(n) == [n |-> n, t |-> "float", s |-> ""]
PyBool(b) == [n |-> IF b THEN 1 ELSE 0, t |-> "bool", s |-> ""]
PyStr(s) == [n |-> 0, t |-> "str", s |-> s]
PyNone == [n |-> 0, t |-> "none", s |-> ""]

NumTypes == {"int", "float", "bool"}

\* The numeric value in millionths: a float carries microseconds of a
\* time.time() reading, an int or a bool carries units.
Num(x) == IF x.t = "float" THEN x.n ELSE x.n * 1000000

\* Python's ==  on these values: numbers (bool is a subclass of int) compare
\* by value, strings by text, None only equals None.
PyEq(x, y) ==
  IF x.t \in NumTypes /\ y.t \in NumTypes THEN Num(x) = Num(y)
  ELSE IF x.t = "str" /\ y.t = "str" THEN x.s = y.s
  ELSE x.t = "none" /\ y.t = "none"

\* dict.get(key): the value, or None when the key is absent.
DictGet(doc, key) == IF key \in DOMAIN doc THEN doc[key] ELSE PyNone

\* dict.update(other): other's keys overwrite or are added.
DictUpdate(doc, other) ==
  [k \in (DOMAIN doc) \cup (DOMAIN other) |->
     IF k \in DOMAIN other THEN other[k] ELSE doc[k]]

\* doc[key] = value
DictSet(doc, key, value) ==
  [k \in (DOMAIN doc) \cup {key} |-> IF k = key THEN value ELSE doc[k]]

EmptyDict == <<>>

\* str(int): decimal digits.
Digit(d) ==
  CASE d = 0 -> "0" [] d = 1 -> "1" [] d = 2 -> "2" [] d = 3 -> "3"
    [] d = 4 -> "4" [] d = 5 -> "5" [] d = 6 -> "6" [] d = 7 -> "7"
    [] d = 8 -> "8" [] d = 9 -> "9"

RECURSIVE IntToStr(_)
IntToStr(n) == IF n < 10 THEN Digit(n) ELSE IntToStr(n \div 10) \o Digit(n % 10)

\* str(int(time.time() * 1000000)) for a reading of t microseconds.
DocId(t) == PyStr(IntToStr(t))

\* ------------------------------------------------------------------- JSON
\* json.dump of one value: the token it writes.
JsonOfValue(v) ==
  CASE v.t = "bool" -> [n |-> 0, s |-> IF v.n = 1 THEN "true" ELSE "false",
                        k |-> "lit"]
    [] v.t = "none" -> [n |-> 0, s |-> "null", k |-> "lit"]
    [] v.t = "int" -> [n |-> v.n, s |-> "", k |-> "int"]
    [] v.t = "float" -> [n |-> v.n, s |-> "", k |-> "real"]
    [] v.t = "str" -> [n |-> 0, s |-> v.s, k |-> "string"]

\* json.load of one token.
ValueOfJson(j) ==
  CASE j.k = "lit" /\ j.s = "true" -> PyBool(TRUE)
    [] j.k = "lit" /\ j.s = "false" -> PyBool(FALSE)
    [] j.k = "lit" /\ j.s = "null" -> PyNone
    [] j.k = "int" -> PyInt(j.n)
    [] j.k = "real" -> PyFloat(j.n)
    [] j.k = "string" -> PyStr(j.s)

JsonOfDoc(doc) == [k \in DOMAIN doc |-> JsonOfValue(doc[k])]
DocOfJson(obj) == [k \in DOMAIN obj |-> ValueOfJson(obj[k])]

\* ------------------------------------------------------------- database
\* self.data: a dict, in insertion order, from collection name to a list of
\* references into the heap.  Modelled as a sequence of [name, docs].
Names(data) == {data[i].name : i \in 1..Len(data)}
Index(data, name) == CHOOSE i \in 1..Len(data) : data[i].name = name
DocsOf(data, name) == data[Index(data, name)].docs

RECURSIVE Flat(_)
\* Every reference held by the database, in collection and list order.
Flat(data) ==
  IF data = <<>> THEN <<>> ELSE Head(data).docs \o Flat(Tail(data))

RECURSIVE FirstOcc(_)
\* A sequence without its repeated elements, first occurrences kept.
FirstOcc(seq) ==
  IF seq = <<>> THEN <<>>
  ELSE LET init == FirstOcc(SubSeq(seq, 1, Len(seq) - 1))
           last == seq[Len(seq)]
       IN IF \E i \in 1..Len(init) : init[i] = last THEN init
          ELSE Append(init, last)

PosIn(seq, x) == CHOOSE i \in 1..Len(seq) : seq[i] = x

\* Object identities carry no meaning: number the live objects in the order
\* the database first refers to them, and forget the unreferenced ones.
CanonData(data, heap) ==
  LET ord == FirstOcc(Flat(data))
  IN [i \in 1..Len(data) |->
        [name |-> data[i].name,
         docs |-> [j \in 1..Len(data[i].docs) |-> PosIn(ord, data[i].docs[j])]]]

CanonHeap(data, heap) ==
  LET ord == FirstOcc(Flat(data))
  IN [i \in 1..Len(ord) |-> heap[ord[i]]]

\* The database by value: every reference replaced by the document it names.
DbValue(data, heap) ==
  [i \in 1..Len(data) |->
     [name |-> data[i].name,
      docs |-> [j \in 1..Len(data[i].docs) |-> heap[data[i].docs[j]]]]]

\* json.dump(self.data): the text of the whole database.
Dumps(data, heap) ==
  [i \in 1..Len(data) |->
     [name |-> data[i].name,
      docs |-> [j \in 1..Len(data[i].docs) |->
                  JsonOfDoc(heap[data[i].docs[j]])]]]

\* ------------------------------------------------------------ file system
\* A file: absent, empty (opened for writing, nothing flushed), partial (a
\* proper prefix of a JSON text) or full (a complete JSON text).
Absent == [kind |-> "absent", text |-> <<>>]
EmptyFile == [kind |-> "empty", text |-> <<>>]
Partial == [kind |-> "partial", text |-> <<>>]
Full(text) == [kind |-> "full", text |-> text]
\* Files the engine did not write: one whose bytes do not decode as text,
\* and one that open() is refused on.
Undecodable == [kind |-> "undecodable", text |-> <<>>]
Unreadable == [kind |-> "unreadable", text |-> <<>>]

\* pathlib: a path is a stem and a suffix; with_suffix replaces the suffix.
Path(stem, suffix) == [stem |-> stem, suffix |-> suffix]
WithSuffix(path, suffix) == [path EXCEPT !.suffix = suffix]
TempPath(path) == WithSuffix(path, ".tmp")

DbPaths == {Path("db", ".tmp"), Path("db", ".json")}

\* Every path of the model: the database paths and a backup destination.
BackupPath == Path("backup", ".json")
Paths == {Path("db", ".tmp"), Path("db", ".json"), BackupPath}

RECURSIVE Offsets(_)
\* Offsets(text)[i]: the number of documents in the collections before i.
Offsets(text) ==
  IF text = <<>> THEN <<>>
  ELSE LET init == Offsets(SubSeq(text, 1, Len(text) - 1))
           n == Len(text)
       IN Append(init, IF n = 1 THEN 0
                       ELSE init[n - 1] + Len(text[n - 1].docs))

\* json.load: a complete text parses into new objects; anything else raises
\* and _load_data falls back to {}.  An absent file gives {} as well.
LoadData(file) ==
  IF file.kind = "full"
  THEN LET off == Offsets(file.text)
       IN [i \in 1..Len(file.text) |->
             [name |-> file.text[i].name,
              docs |-> [j \in 1..Len(file.text[i].docs) |-> off[i] + j]]]
  ELSE <<>>

LoadHeap(file) ==
  IF file.kind = "full"
  THEN LET all == Flat(file.text)
       IN [i \in 1..Len(all) |-> DocOfJson(all[i])]
  ELSE <<>>

\* _load_data, lines 32-34: reading bytes that do not decode raises
\* UnicodeDecodeError, which is neither JSONDecodeError nor IOError, so it
\* leaves _load_data and __init__.
LoadRaises(file) == file.kind = "undecodable"

\* ---------------------------------------------------------------- state
VARIABLES
  db_path,   \* self.db_path
  fs,        \* the files, by path
  data,      \* self.data
  heap,      \* the dict objects the database refers to
  clock,     \* the last reading of time.time(), in microseconds
  pc,        \* where the engine is: "idle" between calls, inside a save,
             \* or "none" when the constructor raised and no engine exists
  call,      \* the call in progress or last returned: arguments and result
  peer       \* a second engine instance on the same path, idle while this
             \* one is called: its self.data and the dict objects it holds

vars == <<db_path, fs, data, heap, clock, pc, call, peer>>


\* ---------------------------------------------------------------- inputs
Collections == {"users", "posts"}

\* Documents a caller builds and passes to insert.
InputDocs ==
  { ("b" :> PyStr("1") @@ "a" :> PyInt(1)),
    ("a" :> PyBool(TRUE) @@ "_id" :> PyStr("forged")
       @@ "_created" :> PyFloat(9) @@ "_modified" :> PyFloat(9)) }

\* Queries a caller passes (find and count also accept None, see NoQuery).
Queries ==
  { EmptyDict,
    ("b" :> PyNone),
    ("b" :> PyInt(1)),
    ("a" :> PyInt(1)) }

\* Patches a caller passes to update.
Patches ==
  { ("a" :> PyInt(2)),
    ("_id" :> PyStr("forged")) }

\* The query argument: None (the default of find and count) or a dict.
NoQuery == [none |-> TRUE, q |-> EmptyDict]
Query(q) == [none |-> FALSE, q |-> q]

\* A call: the operation, its arguments, and what it returned.
\*   doc/ref  insert's document: a new dict (ref = 0) or the live object ref
\*   stage    insert only: "create" while create_collection saves, then "body"
\*   n        the returned count        docs  the returned list of objects
\*   id       the returned id           ok    the returned boolean
\*   same     find only: the returned list is the collection's own list
\*   names    list_collections only: the returned list of names
\*   raised   the call ended with an exception instead of a result
\*   failed   the last save of the call reported an error
NoCall ==
  [n |-> 0, doc |-> EmptyDict, docs |-> <<>>, op |-> "none", coll |-> "",
   query |-> NoQuery, patch |-> EmptyDict, ref |-> 0, stage |-> "",
   id |-> PyNone, ok |-> FALSE, same |-> FALSE, names |-> <<>>,
   raised |-> FALSE, failed |-> FALSE]

\* -------------------------------------------------------------- matching
\* find and update, lines 114-117 and 155-158: every key of the query is in
\* the document with an equal value.
Matches(doc, q) ==
  \A k \in DOMAIN q : ~(k \notin DOMAIN doc \/ ~PyEq(doc[k], q[k]))

\* delete, line 189: all(doc.get(key) == value ...).
DeleteMatches(doc, q) ==
  \A k \in DOMAIN q : PyEq(DictGet(doc, k), q[k])

\* [x for x in seq if x in keep]
RECURSIVE Filter(_, _)
Filter(seq, keep) ==
  IF seq = <<>> THEN <<>>
  ELSE LET rest == Filter(Tail(seq), keep)
       IN IF Head(seq) \in keep THEN <<Head(seq)>> \o rest ELSE rest

\* find, lines 111-121: the matching objects, in list order.
RECURSIVE FindLoop(_, _, _)
FindLoop(docs, h, q) ==
  IF docs = <<>> THEN <<>>
  ELSE (IF Matches(h[Head(docs)], q) THEN <<Head(docs)>> ELSE <<>>)
         \o FindLoop(Tail(docs), h, q)

\* find, lines 102-121.
FindResult(d, h, c, query) ==
  IF c \notin Names(d) THEN <<>>
  ELSE IF query.none THEN DocsOf(d, c)
  ELSE FindLoop(DocsOf(d, c), h, query.q)

\* ------------------------------------------------ operations, in memory
\* A create_collection that assigns the empty list unconditionally.
WithCollectionReset(d, c) ==
  IF c \notin Names(d) THEN Append(d, [name |-> c, docs |-> <<>>])
  ELSE [d EXCEPT ![Index(d, c)].docs = <<>>]

\* create_collection, lines 63-64.
WithCollection(d, c) ==
  IF c \notin Names(d) THEN Append(d, [name |-> c, docs |-> <<>>]) ELSE d

\* insert, lines 81-84: the three reserved fields, from three readings.
Stamp(doc, t1, t2, t3) ==
  DictSet(DictSet(DictSet(doc, "_id", DocId(t1)),
                  "_created", PyFloat(t2)),
          "_modified", PyFloat(t3))

\* self.data[collection_name].append(obj)
AppendDoc(d, c, obj) ==
  [d EXCEPT ![Index(d, c)].docs = Append(@, obj)]

\* insert, lines 81-89, on a collection that exists: stamp the caller's dict
\* object itself and append a reference to it.  The document is a new dict
\* (ref = 0) or a dict object the database already refers to (ref).
InsertBody(d, h, c, doc, ref, t1, t2, t3) ==
  LET h1 == IF ref = 0 THEN Append(h, doc) ELSE h
      obj == IF ref = 0 THEN Len(h) + 1 ELSE ref
      h2 == [h1 EXCEPT ![obj] = Stamp(h1[obj], t1, t2, t3)]
      d2 == AppendDoc(d, c, obj)
  IN [data |-> CanonData(d2, h2), heap |-> CanonHeap(d2, h2),
      id |-> DocId(t1)]

\* Non-decreasing clock readings from lo on, one for each of n uses.
Readings(n, lo) ==
  {ts \in [1..n -> lo..MaxClock] : \A i \in 1..(n - 1) : ts[i] <= ts[i + 1]}

\* An update loop that stamps _modified first and merges the patch after.
RECURSIVE UpdateLoopStampFirst(_, _, _, _, _, _)
UpdateLoopStampFirst(docs, h, q, patch, ts, now) ==
  IF docs = <<>> THEN [n |-> 0, heap |-> h, clock |-> now]
  ELSE LET obj == Head(docs)
           match == Matches(h[obj], q)
           h1 == IF match
                 THEN [h EXCEPT ![obj] =
                         DictUpdate(DictSet(h[obj], "_modified",
                                            PyFloat(Head(ts))), patch)]
                 ELSE h
           rest == UpdateLoopStampFirst(Tail(docs), h1, q, patch, Tail(ts),
                                        IF match THEN Head(ts) ELSE now)
       IN [n |-> rest.n + (IF match THEN 1 ELSE 0), heap |-> rest.heap,
           clock |-> rest.clock]

\* update, lines 152-163: the loop over the list.  Each object is matched
\* as it is when the loop reaches it; ts[1] is the reading taken if it matches.
RECURSIVE UpdateLoop(_, _, _, _, _, _)
UpdateLoop(docs, h, q, patch, ts, now) ==
  IF docs = <<>> THEN [n |-> 0, heap |-> h, clock |-> now]
  ELSE LET obj == Head(docs)
           match == Matches(h[obj], q)
           h1 == IF match
                 THEN [h EXCEPT ![obj] =
                         DictSet(DictUpdate(h[obj], patch),
                                 "_modified", PyFloat(Head(ts)))]
                 ELSE h
           rest == UpdateLoop(Tail(docs), h1, q, patch, Tail(ts),
                              IF match THEN Head(ts) ELSE now)
       IN [n |-> rest.n + (IF match THEN 1 ELSE 0), heap |-> rest.heap,
           clock |-> rest.clock]

\* A delete that takes an empty query to select nothing.
DeleteKeepUnqueried(docs, h, q) ==
  IF DOMAIN q = {} THEN docs
  ELSE Filter(docs, {obj \in 1..Len(h) : ~DeleteMatches(h[obj], q)})

\* delete, lines 187-190: the objects the list comprehension keeps.
DeleteKeep(docs, h, q) ==
  Filter(docs, {obj \in 1..Len(h) : ~DeleteMatches(h[obj], q)})

\* A deletion that removes the newest key, whatever the name.
RemoveLastKey(d, c) == SubSeq(d, 1, Len(d) - 1)

\* del self.data[collection_name]
RemoveKey(d, c) ==
  [i \in 1..(Len(d) - 1) |-> IF i < Index(d, c) THEN d[i] ELSE d[i + 1]]

\* ----------------------------------------------------------------- save
\* A save that writes the temporary file and never renames it.
SaveDataNoReplace(files, path, d, h) ==
  [files EXCEPT ![TempPath(path)] = Full(Dumps(d, h))]

\* A save that leaves alone a database file already written.
SaveDataKeepingFile(files, path, d, h) ==
  IF files[path].kind = "full" THEN files
  ELSE [files EXCEPT ![path] = Full(Dumps(d, h))]

\* _save_data, lines 44-52, run to its end without an error: the temporary
\* file takes the whole text and is renamed over the database file.
SaveData(files, path, d, h) ==
  IF TempPath(path) = path
  THEN [files EXCEPT ![path] = Full(Dumps(d, h))]
  ELSE [files EXCEPT ![path] = Full(Dumps(d, h)), ![TempPath(path)] = Absent]

\* A call that saves: in one step (steps = FALSE) the save runs to its end
\* within the call; step by step (steps = TRUE) the call stops before the
\* save, which SaveOpen, SaveWrite and SaveReplace then carry out.
Saved(steps, saves, d, h) ==
  /\ fs' = IF saves /\ ~steps THEN SaveData(fs, db_path, d, h) ELSE fs
  /\ pc' = IF saves /\ steps THEN "save_open" ELSE "idle"

\* Where the call goes on after _save_data returns: insert to its body
\* after create_collection, every other call returns.
AfterSave ==
  IF call.op = "insert" /\ call.stage = "create" THEN "insert_body" ELSE "idle"

\* _save_data, lines 42-54, stopped by an IOError: raised by mkdir or open
\* (nothing written), by the write or the close (the temporary file is left
\* cut short), or by replace (the temporary file is complete).
SaveDataFailing(files, path, d, h, point) ==
  CASE point = "open" -> files
    [] point = "write" -> [files EXCEPT ![TempPath(path)] = Partial]
    [] point = "replace" -> [files EXCEPT ![TempPath(path)] = Full(Dumps(d, h))]

\* _save_data, lines 42-52, as one step of a call that has stopped before it.
SaveSucceeds ==
  /\ pc = "save_open"
  /\ fs' = SaveData(fs, db_path, data, heap)
  /\ pc' = AfterSave
  /\ call' = [call EXCEPT !.failed = FALSE]
  /\ UNCHANGED <<db_path, peer, data, heap, clock>>

\* _save_data, lines 42-54, as one step, an IOError caught at lines 53-54:
\* the error is printed and the call goes on.
SaveFails ==
  /\ pc = "save_open"
  /\ \E point \in {"open", "write", "replace"} :
       fs' = SaveDataFailing(fs, db_path, data, heap, point)
  /\ pc' = AfterSave
  /\ call' = [call EXCEPT !.failed = TRUE]
  /\ UNCHANGED <<db_path, peer, data, heap, clock>>

\* _save_data, lines 44-48: open(temp_path, 'w') creates or truncates.
SaveOpen ==
  /\ pc = "save_open"
  /\ fs' = [fs EXCEPT ![TempPath(db_path)] = EmptyFile]
  /\ pc' = "save_write"
  /\ UNCHANGED <<db_path, peer, data, heap, clock, call>>

\* _save_data, line 49: json.dump writes through a buffer; the file holds a
\* prefix of the text until the with block closes it with the whole text.
SaveWrite ==
  /\ pc = "save_write"
  /\ \E whole \in BOOLEAN :
       /\ whole \/ fs[TempPath(db_path)].kind = "empty"
       /\ fs' = [fs EXCEPT ![TempPath(db_path)] =
                   IF whole THEN Full(Dumps(data, heap)) ELSE Partial]
       /\ pc' = IF whole THEN "save_replace" ELSE "save_write"
  /\ UNCHANGED <<db_path, peer, data, heap, clock, call>>

\* _save_data, line 52: temp_path.replace(db_path), an atomic rename (onto
\* itself it changes nothing).  The call then goes on.
SaveReplace ==
  /\ pc = "save_replace"
  /\ fs' = IF TempPath(db_path) = db_path THEN fs
           ELSE [fs EXCEPT ![db_path] = fs[TempPath(db_path)],
                           ![TempPath(db_path)] = Absent]
  /\ pc' = AfterSave
  /\ UNCHANGED <<db_path, peer, data, heap, clock, call>>

\* ------------------------------------------------------------ operations
\* __init__ and _load_data, lines 24-38, on the path of this engine.  When
\* _load_data raises no engine is constructed.
Open ==
  /\ pc \in {"none", "idle"}
  /\ data' = LoadData(fs[db_path])
  /\ heap' = LoadHeap(fs[db_path])
  /\ call' = [NoCall EXCEPT !.op = "open",
                            !.raised = LoadRaises(fs[db_path])]
  /\ pc' = IF LoadRaises(fs[db_path]) THEN "none" ELSE "idle"
  /\ UNCHANGED <<db_path, peer, fs, clock>>

\* create_collection, lines 63-65.
CreateCollection(c, steps) ==
  /\ pc = "idle"
  /\ call' = [NoCall EXCEPT !.op = "create_collection", !.coll = c]
  /\ data' = WithCollection(data, c)
  /\ Saved(steps, c \notin Names(data), data', heap)
  /\ UNCHANGED <<db_path, peer, heap, clock>>

\* insert, lines 78-89, in one step: create_collection (with its own save
\* when the collection is new), then the body and its save.
Insert(c, doc, ref) ==
  /\ pc = "idle"
  /\ Len(Flat(data)) < MaxDocs
  /\ \E ts \in Readings(3, clock) :
       LET r == InsertBody(WithCollection(data, c), heap, c, doc, ref,
                           ts[1], ts[2], ts[3])
       IN /\ data' = r.data
          /\ heap' = r.heap
          /\ clock' = ts[3]
          /\ call' = [NoCall EXCEPT !.op = "insert", !.coll = c, !.doc = doc,
                                    !.ref = ref, !.stage = "body",
                                    !.id = r.id]
          /\ Saved(FALSE, TRUE, data', heap')
  /\ UNCHANGED <<db_path, peer>>

\* insert, lines 78-89, given a dict object the database already refers to
\* (the caller kept it from an earlier insert, or got it from find).
InsertAgain(c, ref) == Insert(c, heap[ref], ref)

\* insert, line 78, step by step: create_collection on a new collection
\* saves before the body runs.
InsertCreate(c, doc, ref) ==
  /\ pc = "idle"
  /\ Len(Flat(data)) < MaxDocs
  /\ c \notin Names(data)
  /\ data' = WithCollection(data, c)
  /\ call' = [NoCall EXCEPT !.op = "insert", !.coll = c, !.doc = doc,
                            !.ref = ref, !.stage = "create"]
  /\ Saved(TRUE, TRUE, data', heap)
  /\ UNCHANGED <<db_path, peer, heap, clock>>

\* insert, lines 81-89, step by step: the body, on a collection that exists
\* (start = TRUE) or after create_collection returned (start = FALSE).
InsertSteps(c, doc, ref, start) ==
  /\ IF start
     THEN pc = "idle" /\ Len(Flat(data)) < MaxDocs /\ c \in Names(data)
     ELSE pc = "insert_body" /\ c = call.coll /\ doc = call.doc
            /\ ref = call.ref
  /\ \E ts \in Readings(3, clock) :
       LET r == InsertBody(data, heap, c, doc, ref, ts[1], ts[2], ts[3])
       IN /\ data' = r.data
          /\ heap' = r.heap
          /\ clock' = ts[3]
          /\ call' = [NoCall EXCEPT !.op = "insert", !.coll = c, !.doc = doc,
                                    !.ref = ref, !.stage = "body",
                                    !.id = r.id]
          /\ Saved(TRUE, TRUE, data', heap')
  /\ UNCHANGED <<db_path, peer>>

\* update, lines 149-168.
Update(c, q, patch, steps) ==
  /\ pc = "idle"
  /\ IF c \notin Names(data)
     THEN /\ call' = [NoCall EXCEPT !.op = "update", !.coll = c,
                                    !.query = Query(q), !.patch = patch]
          /\ UNCHANGED <<heap, clock, fs, pc>>
     ELSE \E ts \in Readings(Len(DocsOf(data, c)), clock) :
            LET r == UpdateLoop(DocsOf(data, c), heap, q, patch, ts, clock)
            IN /\ heap' = r.heap
               /\ clock' = r.clock
               /\ call' = [NoCall EXCEPT !.op = "update", !.coll = c,
                                         !.query = Query(q), !.patch = patch,
                                         !.n = r.n]
               /\ Saved(steps, r.n > 0, data, heap')
  /\ UNCHANGED <<db_path, peer, data>>

\* A delete that creates the collection it is asked about.
DeleteCreating(c, q, steps) ==
  /\ pc = "idle"
  /\ data' = WithCollection(data, c)
  /\ call' = [NoCall EXCEPT !.op = "delete", !.coll = c, !.query = Query(q)]
  /\ UNCHANGED <<db_path, peer, fs, heap, clock, pc>>

\* delete, lines 181-197.
Delete(c, q, steps) ==
  /\ pc = "idle"
  /\ IF c \notin Names(data)
     THEN /\ call' = [NoCall EXCEPT !.op = "delete", !.coll = c,
                                    !.query = Query(q)]
          /\ UNCHANGED <<data, heap, fs, pc>>
     ELSE LET original_count == Len(DocsOf(data, c))
              kept == DeleteKeep(DocsOf(data, c), heap, q)
              d2 == [data EXCEPT ![Index(data, c)].docs = kept]
              deleted_count == original_count - Len(kept)
          IN /\ data' = CanonData(d2, heap)
             /\ heap' = CanonHeap(d2, heap)
             /\ call' = [NoCall EXCEPT !.op = "delete", !.coll = c,
                                       !.query = Query(q),
                                       !.n = deleted_count]
             /\ Saved(steps, deleted_count > 0, data', heap')
  /\ UNCHANGED <<db_path, peer, clock>>

\* drop_collection, lines 218-222.
DropCollection(c, steps) ==
  /\ pc = "idle"
  /\ IF c \in Names(data)
     THEN /\ data' = CanonData(RemoveKey(data, c), heap)
          /\ heap' = CanonHeap(RemoveKey(data, c), heap)
          /\ call' = [NoCall EXCEPT !.op = "drop_collection", !.coll = c,
                                    !.ok = TRUE]
          /\ Saved(steps, TRUE, data', heap')
     ELSE /\ call' = [NoCall EXCEPT !.op = "drop_collection", !.coll = c]
          /\ UNCHANGED <<data, heap, fs, pc>>
  /\ UNCHANGED <<db_path, peer, clock>>

\* find, lines 102-121.  The result refers to the stored dict objects, and
\* without a query it is the collection's own list.
Find(c, query) ==
  /\ pc = "idle"
  /\ call' = [NoCall EXCEPT !.op = "find", !.coll = c, !.query = query,
                            !.docs = FindResult(data, heap, c, query),
                            !.same = (c \in Names(data) /\ query.none)]
  /\ UNCHANGED <<db_path, peer, fs, data, heap, clock, pc>>

\* find_one, lines 134-135: results[0] if results else None.
FindOne(c, q) ==
  /\ pc = "idle"
  /\ LET results == FindResult(data, heap, c, Query(q))
     IN call' = [NoCall EXCEPT !.op = "find_one", !.coll = c,
                               !.query = Query(q),
                               !.docs = IF results # <<>>
                                        THEN <<results[1]>> ELSE <<>>,
                               !.ok = (results # <<>>)]
  /\ UNCHANGED <<db_path, peer, fs, data, heap, clock, pc>>

\* count, line 235: len(self.find(collection_name, query)).
Count(c, query) ==
  /\ pc = "idle"
  /\ call' = [NoCall EXCEPT !.op = "count", !.coll = c, !.query = query,
                            !.n = Len(FindResult(data, heap, c, query))]
  /\ UNCHANGED <<db_path, peer, fs, data, heap, clock, pc>>

\* The names, newest first.
KeysReversed(d) == [i \in 1..Len(d) |-> d[Len(d) + 1 - i].name]

\* list(self.data.keys()): the names, in the dict's insertion order.
Keys(d) == [i \in 1..Len(d) |-> d[i].name]

\* list_collections, line 206.
ListCollections ==
  /\ pc = "idle"
  /\ call' = [NoCall EXCEPT !.op = "list_collections", !.names = Keys(data)]
  /\ UNCHANGED <<db_path, peer, fs, data, heap, clock, pc>>

\* A copy that reports success and writes nothing.
CopyNothing(files, src, dst) == files

\* shutil.copy2(src, dst), run to its end: dst takes the content of src.
CopyFile(files, src, dst) == [files EXCEPT ![dst] = files[src]]

\* backup, lines 247-253.  copy2 raises when the source is absent or
\* unreadable, when dst is the source itself (SameFileError), when dst
\* cannot be opened (refused) or when the write is cut short (cut, dst left
\* partly written); every exception is caught and False returned.
Backup(dst, outcome) ==
  /\ pc = "idle"
  /\ LET ok == /\ outcome = "done"
               /\ fs[db_path].kind \notin {"absent", "unreadable"}
               /\ dst # db_path
     IN /\ fs' = IF ok THEN CopyFile(fs, db_path, dst)
                 ELSE IF outcome = "cut" /\ dst # db_path
                        /\ fs[db_path].kind \notin {"absent", "unreadable"}
                      THEN [fs EXCEPT ![dst] = Partial]
                      ELSE fs
        /\ call' = [NoCall EXCEPT !.op = "backup", !.ok = ok]
  /\ UNCHANGED <<db_path, peer, data, heap, clock, pc>>

\* Something other than the engine leaves the database file absent,
\* empty, cut short, undecodable or unreadable.
ForeignFiles == {Absent, EmptyFile, Partial, Undecodable, Unreadable}

FileBecomes(f) ==
  /\ pc \in {"none", "idle"}
  /\ fs' = [fs EXCEPT ![db_path] = f]
  /\ call' = [NoCall EXCEPT !.op = "file_becomes"]
  /\ UNCHANGED <<db_path, peer, data, heap, clock, pc>>

\* The caller of find or find_one assigns a field of a document it was
\* returned: result[j][key] = value.
CallerSetsField(j, key, value) ==
  /\ pc = "idle"
  /\ call.op \in {"find", "find_one"}
  /\ j \in 1..Len(call.docs)
  /\ heap' = [heap EXCEPT ![call.docs[j]] = DictSet(@, key, value)]
  /\ call' = [NoCall EXCEPT !.op = "caller_set", !.coll = call.coll]
  /\ UNCHANGED <<db_path, peer, fs, data, clock, pc>>

\* The caller of find empties the list it was returned: result.clear().
\* Only the list find returns without a query is the collection's own.
CallerClearsList ==
  /\ pc = "idle"
  /\ call.op = "find"
  /\ call.docs # <<>>
  /\ LET d2 == IF call.same
               THEN [data EXCEPT ![Index(data, call.coll)].docs = <<>>]
               ELSE data
     IN /\ data' = CanonData(d2, heap)
        /\ heap' = CanonHeap(d2, heap)
  /\ call' = [NoCall EXCEPT !.op = "caller_clear", !.coll = call.coll]
  /\ UNCHANGED <<db_path, peer, fs, clock, pc>>

\* The caller of insert assigns a field of the dict it passed, after insert
\* returned: document[key] = value.  Lines 82-86 stamped and stored that very
\* object, the last of the collection's list.
CallerSetsInserted(key, value) ==
  /\ pc = "idle"
  /\ call.op = "insert"
  /\ LET docs == DocsOf(data, call.coll)
     IN heap' = [heap EXCEPT ![docs[Len(docs)]] = DictSet(@, key, value)]
  /\ call' = [NoCall EXCEPT !.op = "caller_set_inserted", !.coll = call.coll]
  /\ UNCHANGED <<db_path, peer, fs, data, clock, pc>>

\* Two instances were constructed on one path (lines 24-26 give each its
\* own self.data): the caller's next call goes to the other one.  Every call
\* runs to its end, so both are between calls.
Turn ==
  /\ pc = "idle"
  /\ data' = peer.data
  /\ heap' = peer.heap
  /\ peer' = [data |-> data, heap |-> heap]
  /\ call' = [NoCall EXCEPT !.op = "turn"]
  /\ UNCHANGED <<db_path, fs, clock, pc>>

\* The process dies, at any point of a call, and a new process opens the
\* same path: __init__ and _load_data, lines 24-38.  No file changes.
Crash ==
  /\ data' = LoadData(fs[db_path])
  /\ heap' = LoadHeap(fs[db_path])
  /\ pc' = "idle"
  /\ call' = [NoCall EXCEPT !.op = "crash"]
  /\ UNCHANGED <<db_path, peer, fs, clock>>

\* The state after construction on a path where no file, or an empty file
\* (as tempfile.NamedTemporaryFile leaves one), is found; a second instance
\* constructed on the same path found the same.
InitOn(paths) ==
  /\ db_path \in paths
  /\ \E f \in {Absent, EmptyFile} :
       fs = [p \in Paths |-> IF p = db_path THEN f ELSE Absent]
  /\ data = <<>>
  /\ heap = <<>>
  /\ clock = 0
  /\ pc = "idle"
  /\ call = NoCall
  /\ peer = [data |-> <<>>, heap |-> <<>>]

Init == InitOn({Path("db", ".json")})

\* One call of the engine's interface.  The engine is single-threaded and
\* synchronous: a call, its saves included, runs to its end.
Next ==
  \/ \E c \in Collections : CreateCollection(c, FALSE)
  \/ \E c \in Collections : \E doc \in InputDocs : Insert(c, doc, 0)
  \/ \E c \in Collections : \E ref \in 1..Len(heap) : InsertAgain(c, ref)
  \/ \E c \in Collections : \E q \in Queries : \E patch \in Patches :
       Update(c, q, patch, FALSE)
  \/ \E c \in Collections : \E q \in Queries : Delete(c, q, FALSE)
  \/ \E c \in Collections : DropCollection(c, FALSE)
  \/ Open

Spec == Init /\ [][Next]_vars


\* The engine with a caller that reads, and that writes to what it read.
NextQuery ==
  \/ \E c \in Collections : \E doc \in InputDocs : Insert(c, doc, 0)
  \/ \E c \in Collections : Find(c, NoQuery)
  \/ \E c \in Collections : \E q \in Queries : Find(c, Query(q))
  \/ \E c \in Collections : \E q \in Queries : FindOne(c, q)
  \/ \E j \in 1..MaxDocs : CallerSetsField(j, "a", PyInt(3))
  \/ CallerClearsList

SpecQuery == Init /\ [][NextQuery]_vars

\* The engine with each save carried out step by step, on either kind of
\* path, and a process that may die at any step.
InitCrash == InitOn(DbPaths)

NextCrash ==
  \/ \E c \in Collections : CreateCollection(c, TRUE)
  \/ \E doc \in InputDocs : InsertCreate("users", doc, 0)
  \/ \E doc \in InputDocs : InsertSteps("users", doc, 0, TRUE)
  \/ InsertSteps(call.coll, call.doc, call.ref, FALSE)
  \/ \E patch \in Patches : Update("users", EmptyDict, patch, TRUE)
  \/ \E q \in Queries : Delete("users", q, TRUE)
  \/ \E c \in Collections : DropCollection(c, TRUE)
  \/ SaveOpen
  \/ SaveWrite
  \/ SaveReplace
  \/ Crash

SpecCrash == InitCrash /\ [][NextCrash]_vars

\* Patches that name the reserved time fields, with values no clock reading
\* of the model reaches.
StampPatches ==
  { ("a" :> PyInt(2)),
    ("_created" :> PyFloat(9)),
    ("_modified" :> PyFloat(9)) }

\* Inserts and updates of one collection, the patches naming reserved
\* fields.
NextStamp ==
  \/ \E doc \in InputDocs : Insert("users", doc, 0)
  \/ \E ref \in 1..Len(heap) : InsertAgain("users", ref)
  \/ \E q \in {EmptyDict, ("a" :> PyInt(1))} :
       \E patch \in StampPatches : Update("users", q, patch, FALSE)

SpecStamp == Init /\ [][NextStamp]_vars

\* The engine with one collection, on either kind of path, each save one
\* step that succeeds or fails with an IOError.
NextFail ==
  \/ CreateCollection("users", TRUE)
  \/ \E doc \in InputDocs : InsertCreate("users", doc, 0)
  \/ \E doc \in InputDocs : InsertSteps("users", doc, 0, TRUE)
  \/ InsertSteps(call.coll, call.doc, call.ref, FALSE)
  \/ Update("users", EmptyDict, ("a" :> PyInt(2)), TRUE)
  \/ Delete("users", EmptyDict, TRUE)
  \/ DropCollection("users", TRUE)
  \/ SaveSucceeds
  \/ SaveFails

SpecFail == InitCrash /\ [][NextFail]_vars

\* The engine on a file that something else may replace, and reopened.
NextOpen ==
  \/ \E c \in Collections : CreateCollection(c, FALSE)
  \/ \E doc \in InputDocs : Insert("users", doc, 0)
  \/ \E f \in ForeignFiles : FileBecomes(f)
  \/ Open
  \/ ListCollections

SpecOpen == Init /\ [][NextOpen]_vars

\* The engine with a caller that creates, fills, empties, drops, reads and
\* lists collections, and reopens the file.
NextAdmin ==
  \/ \E c \in Collections : CreateCollection(c, FALSE)
  \/ \E c \in Collections : Insert(c, ("b" :> PyStr("1") @@ "a" :> PyInt(1)), 0)
  \/ \E c \in Collections : Update(c, EmptyDict, ("a" :> PyInt(2)), FALSE)
  \/ \E c \in Collections : Delete(c, EmptyDict, FALSE)
  \/ \E c \in Collections : DropCollection(c, FALSE)
  \/ \E c \in Collections : Find(c, Query(("a" :> PyInt(1))))
  \/ \E c \in Collections : Count(c, NoQuery)
  \/ ListCollections
  \/ Open

SpecAdmin == Init /\ [][NextAdmin]_vars

\* The engine with one collection and a caller that takes backups.
NextBackup ==
  \/ CreateCollection("users", FALSE)
  \/ Insert("users", ("b" :> PyStr("1") @@ "a" :> PyInt(1)), 0)
  \/ Delete("users", ("a" :> PyInt(1)), FALSE)
  \/ \E dst \in {BackupPath, db_path} :
       \E outcome \in {"done", "cut", "refused"} : Backup(dst, outcome)
  \/ Open

SpecBackup == Init /\ [][NextBackup]_vars

\* The engine with a caller that keeps the dict it passed to insert, writes
\* to it, passes it again, and reads.
NextAlias ==
  \/ \E c \in Collections : \E doc \in InputDocs : Insert(c, doc, 0)
  \/ \E c \in Collections : \E ref \in 1..Len(heap) : InsertAgain(c, ref)
  \/ CallerSetsInserted("a", PyInt(3))
  \/ \E c \in Collections : Find(c, NoQuery)

SpecAlias == Init /\ [][NextAlias]_vars

\* Two engine instances on one file, a caller that opens and inserts
\* through either, one call at a time.
NextTwo ==
  \/ Insert("users", ("b" :> PyStr("1") @@ "a" :> PyInt(1)), 0)
  \/ Open
  \/ Turn

SpecTwo == Init /\ [][NextTwo]_vars

\* ----------------------------------------------------------------- claims
\* The documents of collection c by value, in list order (none when absent).
ValuesOf(d, h, c) ==
  IF c \notin Names(d) THEN <<>>
  ELSE [j \in 1..Len(DocsOf(d, c)) |-> h[DocsOf(d, c)[j]]]

\* The documents a list of objects refers to.
Deref(h, objs) == [j \in 1..Len(objs) |-> h[objs[j]]]

\* The elements of a sequence, as a set.
Range(seq) == {seq[i] : i \in 1..Len(seq)}

Reserved == {"_id", "_created", "_modified"}


\* The type of a value in the JSON data model.
JsonType(v) == IF v.t \in {"int", "float"} THEN "number" ELSE v.t

\* Type-sensitive equality: the same JSON type and the same value.
ExactlyEqual(x, y) == JsonType(x) = JsonType(y) /\ PyEq(x, y)

\* A document contains every key of the query with an exactly equal value.
ExactMatch(doc, q) ==
  \A k \in DOMAIN q : k \in DOMAIN doc /\ ExactlyEqual(doc[k], q[k])

\* C1: an update, whatever its patch, leaves the _id and the _created of
\* every stored document as they were.
C1_UpdateKeepsIdAndCreated ==
  [][call'.op = "update" =>
       \A obj \in 1..Len(heap) :
         /\ heap'[obj]["_id"] = heap[obj]["_id"]
         /\ heap'[obj]["_created"] = heap[obj]["_created"]]_vars

\* C2: in every reachable state the documents of one collection carry
\* pairwise distinct _id values.
C2_IdsDistinct ==
  \A i \in 1..Len(data) :
    \A j, k \in 1..Len(data[i].docs) :
      j # k => heap[data[i].docs[j]]["_id"] # heap[data[i].docs[k]]["_id"]

\* C3: after every call the file, read back by a new engine, gives the
\* database the engine holds: the same collections in the same order, and
\* find on each returns the same documents, reserved fields included, in
\* the same order.
C3_FileEqualsMemory ==
  LET file == fs[db_path]
  IN /\ DbValue(LoadData(file), LoadHeap(file)) = DbValue(data, heap)
     /\ \A c \in Collections :
          Deref(LoadHeap(file),
                FindResult(LoadData(file), LoadHeap(file), c, NoQuery))
            = Deref(heap, FindResult(data, heap, c, NoQuery))

\* A new engine was opened on a file holding two collections, documents in
\* both, one of them with a boolean field.
C3_Reopened ==
  /\ call.op = "open"
  /\ Len(data) = 2
  /\ \A i \in 1..2 : data[i].docs # <<>>
  /\ \E obj \in 1..Len(heap) :
       "a" \in DOMAIN heap[obj] /\ heap[obj]["a"] = PyBool(TRUE)

\* C4: when the caller writes to a document, or to the list, that find or
\* find_one returned, a later find returns the same documents as before and
\* the database in memory still equals the content of the file.
C4_ReturnedDocumentsIsolated ==
  [][call'.op \in {"caller_set", "caller_clear"} =>
       /\ \A c \in Collections :
            Deref(heap', FindResult(data', heap', c, NoQuery))
              = Deref(heap, FindResult(data, heap, c, NoQuery))
       /\ DbValue(data', heap')
            = DbValue(LoadData(fs'[db_path]), LoadHeap(fs'[db_path]))]_vars

\* C5: the content of the database file only ever changes from one complete
\* database to the next, the complete text of the database in memory: no
\* step of a save, and no crash, leaves it empty or partly written.
C5_LiveFileNeverPartial ==
  [][fs'[db_path] # fs[db_path] =>
       fs'[db_path] = Full(Dumps(data, heap))]_vars

\* C6: delete removes exactly the documents find would have returned for
\* the same query, returns their number, and keeps the others in order.
C6_DeleteMatchesLikeFind ==
  [][(call'.op = "delete" /\ call'.coll \in Names(data)) =>
       LET c == call'.coll
           found == FindResult(data, heap, c, call'.query)
           kept == Filter(DocsOf(data, c),
                          (1..Len(heap)) \ Range(found))
       IN /\ call'.n = Len(found)
          /\ ValuesOf(data', heap', c) = Deref(heap, kept)]_vars

\* C7: an update or a delete whose query matches no document (by find's
\* rule), or whose collection is absent, returns 0 and changes neither the
\* database in memory nor any file.
C7_NoMatchNoChange ==
  [][(call'.op \in {"update", "delete"}
        /\ FindResult(data, heap, call'.coll, call'.query) = <<>>) =>
       /\ call'.n = 0
       /\ DbValue(data', heap') = DbValue(data, heap)
       /\ fs' = fs]_vars

\* C8: find returns, in insertion order, exactly the documents that hold
\* every key of the query with a type-sensitively equal value, and the
\* whole collection when the query is omitted or empty.
C8_FindExact ==
  call.op = "find" =>
    LET all == ValuesOf(data, heap, call.coll)
        hit == {j \in 1..Len(all) :
                  call.query.none \/ ExactMatch(all[j], call.query.q)}
    IN Deref(heap, call.docs)
         = [k \in 1..Cardinality(hit) |->
              all[CHOOSE j \in hit : Cardinality({i \in hit : i < j}) = k - 1]]

\* C9: update returns the number of documents that matched before the
\* call; each of them then holds every patch key (other than _modified,
\* which update itself rewrites) with the patch value and keeps its other
\* non-reserved fields; the documents that did not match, the order of the
\* collection and every other collection are as before.
C9_UpdateEffect ==
  [][call'.op = "update" =>
       LET c == call'.coll
           patch == call'.patch
           before == ValuesOf(data, heap, c)
           after == ValuesOf(data', heap', c)
           hit == {j \in 1..Len(before) : Matches(before[j], call'.query.q)}
       IN /\ call'.n = Cardinality(hit)
          /\ Len(after) = Len(before)
          /\ \A j \in 1..Len(before) :
               IF j \in hit
               THEN /\ \A k \in (DOMAIN patch) \ {"_modified"} :
                         k \in DOMAIN after[j] /\ after[j][k] = patch[k]
                    /\ \A k \in (DOMAIN before[j]) \ (DOMAIN patch \cup Reserved) :
                         k \in DOMAIN after[j] /\ after[j][k] = before[j][k]
               ELSE after[j] = before[j]
          /\ \A o \in Collections \ {c} :
               ValuesOf(data', heap', o) = ValuesOf(data, heap, o)
          /\ Names(data') = Names(data)]_vars

\* C10: insert creates the collection when absent, appends one document at
\* its end and leaves the documents already there, their order and every
\* other collection as they were; it returns the stored _id; the stored
\* reserved fields are the engine's, the other fields the caller's; the
\* whole database is in the file when insert returns.
C10_InsertEffect ==
  [][call'.op = "insert" =>
       LET c == call'.coll
           before == ValuesOf(data, heap, c)
           after == ValuesOf(data', heap', c)
           new == after[Len(after)]
       IN /\ c \in Names(data')
          /\ Len(after) = Len(before) + 1
          /\ SubSeq(after, 1, Len(before)) = before
          /\ new["_id"] = call'.id
          /\ new["_id"] \in {DocId(t) : t \in clock..clock'}
          /\ new["_created"] \in {PyFloat(t) : t \in clock..clock'}
          /\ new["_modified"] = PyFloat(clock')
          /\ \A k \in (DOMAIN call'.doc) \ Reserved :
               k \in DOMAIN new /\ new[k] = call'.doc[k]
          /\ DOMAIN new = (DOMAIN call'.doc) \cup Reserved
          /\ \A o \in Collections \ {c} :
               ValuesOf(data', heap', o) = ValuesOf(data, heap, o)
          /\ Names(data') = Names(data) \cup {c}
          /\ fs'[db_path] = Full(Dumps(data', heap'))]_vars

\* C11: in every reachable state every stored document has _created at or
\* before _modified, whatever patch update was given.
C11_CreatedNotAfterModified ==
  \A obj \in 1..Len(heap) :
    /\ heap[obj]["_created"].t \in NumTypes
    /\ heap[obj]["_modified"].t \in NumTypes
    /\ Num(heap[obj]["_created"]) <= Num(heap[obj]["_modified"])

\* C12: after an update every document that matched carries as _modified a
\* clock reading taken during that update: not lower than its previous
\* value, strictly greater when the clock had advanced past that value, and
\* never the _modified of the patch.
C12_ModifiedIsReading ==
  [][(call'.op = "update" /\ call'.coll \in Names(data)) =>
       \A obj \in Range(DocsOf(data, call'.coll)) :
         Matches(heap[obj], call'.query.q) =>
           LET old == heap[obj]["_modified"]
               new == heap'[obj]["_modified"]
           IN /\ new \in {PyFloat(t) : t \in clock..clock'}
              /\ Num(new) >= Num(old)
              /\ (clock > Num(old) => Num(new) > Num(old))
              /\ ("_modified" \in DOMAIN call'.patch
                    => new # call'.patch["_modified"])]_vars

\* An update whose patch names _modified matched a document that was
\* written at reading 0, and the clock read 1 during the update.
C12_PatchedModified ==
  /\ call.op = "update"
  /\ "_modified" \in DOMAIN call.patch
  /\ call.n > 0
  /\ clock = 1
  /\ \E obj \in Range(DocsOf(data, call.coll)) :
       /\ heap[obj]["_id"] = DocId(0)
       /\ heap[obj]["_created"] = PyFloat(0)
       /\ heap[obj]["_modified"] = PyFloat(1)

\* C13: delete with the empty query on an existing collection returns the
\* number of documents the collection held and leaves it existing and
\* empty; the names, their order and every other collection are as before,
\* and the file holds the new database.
C13_DeleteAll ==
  [][(call'.op = "delete" /\ DOMAIN call'.query.q = {}
        /\ call'.coll \in Names(data)) =>
       LET c == call'.coll
       IN /\ call'.n = Len(DocsOf(data, c))
          /\ c \in Names(data')
          /\ DocsOf(data', c) = <<>>
          /\ [i \in 1..Len(data') |-> data'[i].name]
               = [i \in 1..Len(data) |-> data[i].name]
          /\ \A o \in Collections \ {c} :
               ValuesOf(data', heap', o) = ValuesOf(data, heap, o)
          /\ (call'.n > 0 =>
                LoadData(fs'[db_path]) = data'
                  /\ LoadHeap(fs'[db_path]) = heap')]_vars

\* delete with the empty query removed two documents, and another
\* collection exists.
C13_DeletedAll ==
  /\ call.op = "delete"
  /\ DOMAIN call.query.q = {}
  /\ call.n = 2
  /\ Len(data) = 2
  /\ call.coll \in Names(data)
  /\ DocsOf(data, call.coll) = <<>>

\* C14: when a save fails the call goes on to its normal result, the
\* database in memory is as the call left it, and the database file keeps
\* the content it had before the save.
C14_FailedSaveKeepsFile ==
  [][(pc = "save_open" /\ pc' # "save_open" /\ call'.failed) =>
       /\ ~call'.raised
       /\ [call' EXCEPT !.failed = call.failed] = call
       /\ data' = data
       /\ heap' = heap
       /\ fs'[db_path] = fs[db_path]]_vars

\* C15: opening never raises and never changes a file; on a file that is
\* absent, unparseable or unreadable the engine starts empty and
\* list_collections returns nothing.
C15_OpenNeverRaises ==
  [][call'.op = "open" =>
       /\ ~call'.raised
       /\ fs' = fs
       /\ (fs[db_path].kind # "full" =>
             data' = <<>> /\ heap' = <<>> /\ Keys(data') = <<>>)]_vars

\* C16: drop_collection returns true exactly when the collection existed;
\* then the collection is gone from memory and from the file, and the other
\* collections, their order and their documents are as before; otherwise
\* nothing changes, in memory or in any file.
C16_DropEffect ==
  [][call'.op = "drop_collection" =>
       LET c == call'.coll
       IN /\ ~call'.raised
          /\ call'.ok = (c \in Names(data))
          /\ IF c \in Names(data)
             THEN /\ c \notin Names(data')
                  /\ Keys(data') = Filter(Keys(data), Collections \ {c})
                  /\ \A o \in Collections \ {c} :
                       ValuesOf(data', heap', o) = ValuesOf(data, heap, o)
                  /\ Len(heap') = Cardinality(Range(Flat(data')))
                  /\ c \notin Names(LoadData(fs'[db_path]))
                  /\ DbValue(LoadData(fs'[db_path]), LoadHeap(fs'[db_path]))
                       = DbValue(data', heap')
             ELSE /\ data' = data
                  /\ heap' = heap
                  /\ fs' = fs]_vars

\* The first of two collections was dropped; the other one, with a
\* document, is still there.
C16_Dropped ==
  /\ call.op = "drop_collection"
  /\ call.ok
  /\ call.coll = "users"
  /\ Keys(data) = <<"posts">>
  /\ DocsOf(data, "posts") # <<>>
  /\ fs[db_path] = Full(Dumps(data, heap))

\* C17: find, count, update and delete on a collection that does not exist
\* return the empty list or 0 without raising, and leave the database in
\* memory, which still lacks the collection, and every file as they were.
C17_MissingCollection ==
  [][(call'.op \in {"update", "delete", "find", "count"}
        /\ call'.coll \notin Names(data)) =>
       /\ ~call'.raised
       /\ call'.n = 0
       /\ call'.docs = <<>>
       /\ call'.coll \notin Names(data')
       /\ data' = data
       /\ heap' = heap
       /\ fs' = fs]_vars

\* delete was called on a collection that does not exist, while another
\* collection holds a document.
C17_MissingAsked ==
  /\ call.op = "delete"
  /\ call.coll \notin Names(data)
  /\ call.n = 0
  /\ Len(heap) > 0

\* C18: create_collection on an existing name changes nothing, in memory or
\* in any file; on an absent name it appends an empty collection, leaves
\* the others as they were and saves; a second call would find the state
\* of the first and change nothing.
C18_CreateIdempotent ==
  [][call'.op = "create_collection" =>
       LET c == call'.coll
       IN /\ ~call'.raised
          /\ IF c \in Names(data)
             THEN data' = data /\ heap' = heap /\ fs' = fs
             ELSE /\ Keys(data') = Append(Keys(data), c)
                  /\ DocsOf(data', c) = <<>>
                  /\ heap' = heap
                  /\ \A o \in Collections \ {c} :
                       ValuesOf(data', heap', o) = ValuesOf(data, heap, o)
                  /\ DbValue(LoadData(fs'[db_path]), LoadHeap(fs'[db_path]))
                       = DbValue(data', heap')
          /\ c \in Names(data')
          /\ WithCollection(data', c) = data']_vars

\* create_collection was called on a collection that holds a document.
C18_CreatedExisting ==
  /\ call.op = "create_collection"
  /\ call.coll \in Names(data)
  /\ DocsOf(data, call.coll) # <<>>

\* C19: backup changes neither the database in memory nor the database file
\* nor its temporary file and never raises; when it returns true the
\* destination holds the content of the database file, which read back is
\* the database in memory.
C19_BackupEffect ==
  [][call'.op = "backup" =>
       /\ ~call'.raised
       /\ data' = data
       /\ heap' = heap
       /\ \A p \in DbPaths : fs'[p] = fs[p]
       /\ (call'.ok =>
             /\ fs'[BackupPath] = fs[db_path]
             /\ DbValue(LoadData(fs'[BackupPath]), LoadHeap(fs'[BackupPath]))
                  = DbValue(data, heap))]_vars

\* A backup succeeded on a database that holds a document.
C19_BackedUp ==
  /\ call.op = "backup"
  /\ call.ok
  /\ Len(heap) > 0
  /\ fs[BackupPath] = Full(Dumps(data, heap))

\* C20: the names list_collections returns are pairwise distinct; a call
\* keeps the relative order of the names that stay and puts a new name
\* after them (the order of creation); reopening from the file gives the
\* same list.
C20_ListOrder ==
  [][LET old == Keys(data)
         new == Keys(data')
     IN /\ \A i, j \in 1..Len(new) : i # j => new[i] # new[j]
        /\ Filter(new, Names(data)) = Filter(old, Names(data'))
        /\ \A i, j \in 1..Len(new) :
             (new[i] \notin Names(data) /\ new[j] \in Names(data)) => j < i
        /\ (call'.op = "open" => new = old)
        /\ (call'.op = "list_collections" =>
              call'.names = new /\ new = old)]_vars

\* list_collections returned the two names in their order of creation,
\* which is not the alphabetical one.
C20_Listed ==
  /\ call.op = "list_collections"
  /\ call.names = <<"users", "posts">>

\* C22: the engine keeps no alias to the dict passed to insert: when the
\* caller afterwards assigns a field of that dict, find returns for every
\* collection the documents it returned before; when the caller passes the
\* dict (or one find returned) to insert again, the documents stored before
\* are returned as they were, fields and _id, ahead of the new one.
C22_InsertKeepsNoAlias ==
  [][/\ call'.op = "caller_set_inserted" =>
          \A c \in Collections :
            Deref(heap', FindResult(data', heap', c, NoQuery))
              = Deref(heap, FindResult(data, heap, c, NoQuery))
     /\ (call'.op = "insert" /\ call'.ref # 0) =>
          \A c \in Collections :
            LET before == Deref(heap, FindResult(data, heap, c, NoQuery))
                after == Deref(heap', FindResult(data', heap', c, NoQuery))
            IN SubSeq(after, 1, Len(before)) = before]_vars

\* The documents of a JSON text, as a set.
FileDocs(file) == IF file.kind = "full" THEN Range(Flat(file.text)) ELSE {}

\* The documents an instance holds, as the JSON objects a save writes.
HeldDocs(h) == {JsonOfDoc(h[i]) : i \in 1..Len(h)}

\* C21: with two instances on one file, the save at the end of an insert
\* writes the whole file from the inserting instance's own memory: the file
\* then holds exactly that instance's database, and every document the
\* other instance holds that this one does not is absent from the file.
C21_SaveRewritesWholeFile ==
  [][call'.op = "insert" =>
       /\ fs'[db_path] = Full(Dumps(data', heap'))
       /\ FileDocs(fs'[db_path]) = HeldDocs(heap')
       /\ HeldDocs(peer'.heap) \ HeldDocs(heap')
            = HeldDocs(peer'.heap) \ FileDocs(fs'[db_path])]_vars

\* A lost update: each instance holds one document; the instance whose
\* insert has just returned finds its document alone in the file, and no
\* document of the file carries the _id of the other instance's document,
\* which only an insert of that instance can have assigned.
C21_LostUpdate ==
  /\ call.op = "insert"
  /\ Len(heap) = 1
  /\ Len(peer.heap) = 1
  /\ fs[db_path].kind = "full"
  /\ FileDocs(fs[db_path]) = HeldDocs(heap)
  /\ \A doc \in FileDocs(fs[db_path]) :
       doc["_id"] # JsonOfValue(peer.heap[1]["_id"])

====
